---- MODULE Spec2Model ----
(***************************************************************************)
(* A model of server.js of the aged-inventory dashboard: the low-value     *)
(* import (rollup to style+color, delete-all, one insert per group), the   *)
(* catalog import and the catalog sync (upsert into catalog_images, then   *)
(* backfill of aged_inventory), the flag update, and the token cache of    *)
(* getZohoAccessToken with the image proxy that calls it.                  *)
(*                                                                         *)
(* A string is a sequence of one-character strings, so that trim(), the    *)
(* "|" of the grouping key and startsWith() are computed as the code       *)
(* computes them.  A table is a sequence of rows in insertion order; the   *)
(* position of a row stands for its id.  Every await of a handler is a     *)
(* point where other handlers run: one action is one database query        *)
(* together with the synchronous code that follows it up to the next       *)
(* await.                                                                  *)
(***************************************************************************)
EXTENDS Integers, Sequences, FiniteSets, TLC

VARIABLES
  aged_inventory,   \* table aged_inventory: rows [style, color, image_url, flagged]
  catalog_images,   \* table catalog_images: rows [style, image_url]
  catalogPool,      \* whether CATALOG_DATABASE_URL is set (fixed at construction)
  boot,             \* position of the startup chain: "init", "sync", "up", "exited"
  imp,              \* the POST /api/import/low-value requests
  flg,              \* the POST /api/flag request
  cat,              \* the POST /api/import/catalog request
  syn,              \* the runs of syncCatalogImages
  lastUpsert,       \* history: style -> image_url of the latest upsert executed
  ops,              \* history: how many requests and timer runs have started
  in_rows,          \* rollup alone: the parsed rows
  in_cache,         \* rollup alone: the rows SELECTed from catalog_images
  out_groups,       \* rollup alone: Object.values(grouped)
  rpc,              \* rollup alone: "ready" or "done"
  zohoAccessToken,  \* let zohoAccessToken (Null when null)
  tokenExpiry,      \* let tokenExpiry, in ms
  now,              \* Date.now(), in ms
  env,              \* process.env: which of the ZOHO_ settings are present
  prx,              \* the GET /api/image-proxy requests
  exchanged         \* history: <<access_token, Date.now(), expires_in>> of the
                    \* exchanges that answered an access_token, in order

vars == <<aged_inventory, catalog_images, catalogPool, boot, imp, flg, cat, syn,
          lastUpsert, ops, in_rows, in_cache, out_groups, rpc,
          zohoAccessToken, tokenExpiry, now, env, prx, exchanged>>

serverVars == <<aged_inventory, catalog_images, catalogPool, boot, imp, flg, cat,
                syn, lastUpsert, ops>>

\* what a step of a running handler leaves alone
rest == <<catalogPool, ops, in_rows, in_cache, out_groups, rpc,
          zohoAccessToken, tokenExpiry, now, env, prx, exchanged>>

\* what the start of a request or timer run leaves alone (it counts in ops)
restAtStart == <<catalogPool, in_rows, in_cache, out_groups, rpc,
                 zohoAccessToken, tokenExpiry, now, env, prx, exchanged>>

rollupVars == <<in_rows, in_cache, out_groups, rpc>>

tokenVars == <<zohoAccessToken, tokenExpiry, now, env, prx, exchanged>>

\* what a step of GET /api/image-proxy leaves alone, ops apart
outsideProxy == <<aged_inventory, catalog_images, catalogPool, boot, imp, flg, cat,
                  syn, lastUpsert, in_rows, in_cache, out_groups, rpc>>

-----------------------------------------------------------------------------
(* Strings *)

Blank == << >>

\* SQL NULL / JS null in a column of the external products table
Null == <<"NULL">>

IsSpace(c) == c = " "

RECURSIVE TrimStart(_)
TrimStart(s) ==
  IF s = << >> THEN s
  ELSE IF IsSpace(Head(s)) THEN TrimStart(Tail(s)) ELSE s

RECURSIVE TrimEnd(_)
TrimEnd(s) ==
  IF s = << >> THEN s
  ELSE IF IsSpace(s[Len(s)]) THEN TrimEnd(SubSeq(s, 1, Len(s) - 1)) ELSE s

\* String.prototype.trim
Trim(s) == TrimEnd(TrimStart(s))

\* String.prototype.startsWith
StartsWith(s, p) == Len(s) >= Len(p) /\ SubSeq(s, 1, Len(p)) = p

Grand == <<"G", "r", "a", "n", "d">>

-----------------------------------------------------------------------------
(* Numbers.  A number is an integer count of hundredths; the texts parsed have *)
(* at most two digits after the point and no exponent.                        *)

DigitChars == <<"0", "1", "2", "3", "4", "5", "6", "7", "8", "9">>

IsDigit(c) == \E n \in DOMAIN DigitChars : DigitChars[n] = c

DigitValue(c) == (CHOOSE n \in DOMAIN DigitChars : DigitChars[n] = c) - 1

\* the longest prefix of s made of digits
RECURSIVE DigitPrefix(_)
DigitPrefix(s) ==
  IF s = << >> \/ ~IsDigit(Head(s)) THEN << >>
  ELSE <<Head(s)>> \o DigitPrefix(Tail(s))

\* the value of a sequence of digits
RECURSIVE DigitsValue(_)
DigitsValue(ds) ==
  IF ds = << >> THEN 0
  ELSE DigitsValue(SubSeq(ds, 1, Len(ds) - 1)) * 10 + DigitValue(ds[Len(ds)])

\* String(s).replace(/,/g, '')
RemoveCommas(s) == SelectSeq(s, LAMBDA c : c # ",")

\* parseFloat: <<TRUE, hundredths>>, or <<FALSE, 0>> for NaN
ParseFloat(s) ==
  LET t      == TrimStart(s)
      signed == t # << >> /\ Head(t) \in {"-", "+"}
      sign   == IF t # << >> /\ Head(t) = "-" THEN -1 ELSE 1
      u      == IF signed THEN Tail(t) ELSE t
      whole  == DigitPrefix(u)
      v      == SubSeq(u, Len(whole) + 1, Len(u))
      frac   == IF v # << >> /\ Head(v) = "." THEN DigitPrefix(Tail(v)) ELSE << >>
      cents  == DigitsValue(SubSeq(frac \o <<"0", "0">>, 1, 2))
  IN IF whole = << >> /\ frac = << >> THEN <<FALSE, 0>>
     ELSE <<TRUE, sign * (DigitsValue(whole) * 100 + cents)>>

parseNumKeepsCommas(s) ==
  IF s = Blank THEN 0
  ELSE LET f == ParseFloat(s)
       IN IF f[1] THEN f[2] ELSE 0

\* function parseNum(s)
parseNum(s) ==
  IF s = Blank THEN 0
  ELSE LET f == ParseFloat(RemoveCommas(s))
       IN IF f[1] THEN f[2] ELSE 0

\* parseInt(n) || 0 of a number n: its integer part, as an integer
ParseInt(n) == IF n >= 0 THEN n \div 100 ELSE -((-n) \div 100)

-----------------------------------------------------------------------------
(* The rollup of POST /api/import/low-value *)

\* const SIZE_ORDER = { 'XS': 0, 'S': 1, ... , '4X': 8 }
SIZE_ORDER ==
  (<<"X", "S">> :> 0) @@ (<<"S">> :> 1) @@ (<<"M">> :> 2) @@ (<<"L">> :> 3) @@
  (<<"X", "L">> :> 4) @@ (<<"1", "X">> :> 5) @@ (<<"2", "X">> :> 6) @@
  (<<"3", "X">> :> 7) @@ (<<"4", "X">> :> 8)

\* SIZE_ORDER is an object literal: SIZE_ORDER[a] is also defined for the names
\* it inherits from Object.prototype (these two among them), where it is a
\* function and not a number
ObjectPrototypeNames ==
  { <<"c", "o", "n", "s", "t", "r", "u", "c", "t", "o", "r">>,
    <<"v", "a", "l", "u", "e", "O", "f">> }

Inherits(a) == a \notin DOMAIN SIZE_ORDER /\ a \in ObjectPrototypeNames

\* SIZE_ORDER[a] ?? 9, for a name that is not inherited
SizeRank(a) == IF a \in DOMAIN SIZE_ORDER THEN SIZE_ORDER[a] ELSE 9

\* (a, b) => (SIZE_ORDER[a] ?? 9) - (SIZE_ORDER[b] ?? 9): an inherited member
\* is not nullish, the difference is NaN, and sort takes NaN as +0
CompareSizes(a, b) ==
  IF Inherits(a) \/ Inherits(b) THEN 0 ELSE SizeRank(a) - SizeRank(b)

\* [...new Set(sizes)]: the distinct values in the order of their first insertion
RECURSIVE SetOf(_)
SetOf(sizes) ==
  IF sizes = << >> THEN << >>
  ELSE LET front == SetOf(SubSeq(sizes, 1, Len(sizes) - 1))
           last  == sizes[Len(sizes)]
       IN IF \E i \in DOMAIN front : front[i] = last THEN front
          ELSE Append(front, last)

\* the stable sort of a by a consistent comparator: a value goes behind every
\* value the comparator does not put after it
RECURSIVE StableSort(_)
StableSort(a) ==
  IF a = << >> THEN << >>
  ELSE LET front == StableSort(SubSeq(a, 1, Len(a) - 1))
           last  == a[Len(a)]
           keep  == Cardinality({i \in DOMAIN front :
                                   CompareSizes(front[i], last) <= 0})
       IN SubSeq(front, 1, keep) \o <<last>> \o SubSeq(front, keep + 1, Len(front))

\* whether the comparator orders the values of a consistently
Consistent(a) ==
  \A i, j, k \in DOMAIN a :
    CompareSizes(a[i], a[j]) <= 0 /\ CompareSizes(a[j], a[k]) <= 0
      => CompareSizes(a[i], a[k]) <= 0

\* Array.prototype.sort: what it can return.  The sort is stable; when the
\* comparator is not consistent the order is implementation-defined
SortResults(a) ==
  IF Consistent(a) THEN { StableSort(a) }
  ELSE { [i \in DOMAIN a |-> a[p[i]]] :
           p \in { q \in [DOMAIN a -> DOMAIN a] :
                     \A i, j \in DOMAIN a : q[i] = q[j] => i = j } }

\* function sortSizes(sizes): what it can return
sortSizes(sizes) == SortResults(SetOf(sizes))

\* Array.prototype.join(', ')
RECURSIVE Join(_)
Join(a) ==
  IF a = << >> THEN << >>
  ELSE IF Len(a) = 1 THEN a[1]
  ELSE Join(SubSeq(a, 1, Len(a) - 1)) \o <<",", " ">> \o a[Len(a)]

\* imgResult.rows.forEach(r => { catalogImages[r.style] = r.image_url; })
CatalogImagesOf(rows) ==
  [s \in {rows[i].style : i \in DOMAIN rows} |->
     LET last == CHOOSE i \in DOMAIN rows :
                   /\ rows[i].style = s
                   /\ \A j \in DOMAIN rows : rows[j].style = s => j <= i
     IN rows[last].image_url]

\* catalogImages[style], falsy (Blank) when the object has no such property
CatalogImage(catalogImages, style) ==
  IF style \in DOMAIN catalogImages THEN catalogImages[style] ELSE Blank

\* const key = `${style}|${color}`
GroupKey(style, color) == style \o <<"|">> \o color

\* the object literal assigned to grouped[key]
NewGroup(style, color) ==
  [style |-> style, color |-> color, commodity |-> Blank,
   age_days |-> 0, age_bracket |-> Blank, trsc_date |-> Blank,
   image_url |-> Blank, cost_count |-> 0,
   sizes |-> << >>, total_remaining |-> 0, po_no |-> Blank]

\* the image priority of one row on its group d
ResolveImage(d, r, style, catalogImages) ==
  LET cad == Trim(r.CAD_Link)
  IN IF cad # Blank THEN cad
     ELSE IF d.image_url = Blank /\ CatalogImage(catalogImages, style) # Blank
          THEN CatalogImage(catalogImages, style)
          ELSE d.image_url

\* d.commodity = (r.Commodity || '').trim() || d.commodity
Commodity(d, r) == IF Trim(r.Commodity) # Blank THEN Trim(r.Commodity) ELSE d.commodity

PoNoFirstWins(d, r) == IF d.po_no # Blank THEN d.po_no ELSE Trim(r.PO_No)

\* d.po_no = (r.PO_No || '').trim() || d.po_no
PoNo(d, r) == IF Trim(r.PO_No) # Blank THEN Trim(r.PO_No) ELSE d.po_no

\* const age = parseInt(parseNum(r.Inventory_Age)) || 0
AgeOf(r) == ParseInt(parseNum(r.Inventory_Age))

\* the body of the for loop over one row, on the group d = grouped[key]
FoldRow(d, r, style, catalogImages) ==
  LET age == AgeOf(r)
  IN [d EXCEPT !.commodity   = Commodity(d, r),
               !.image_url   = ResolveImage(d, r, style, catalogImages),
               !.age_days    = IF age > d.age_days THEN age ELSE @,
               !.age_bracket = IF age > d.age_days THEN Trim(r.Age_Bracket) ELSE @,
               !.trsc_date   = IF age > d.age_days THEN Trim(r.Trsc_Date) ELSE @,
               !.cost_count  = @ + 1,
               !.sizes       = Append(@, Trim(r.Size)),
               !.total_remaining = @ + parseNum(r.Remaining_Stock),
               !.po_no       = PoNo(d, r)]

\* grouped is a sequence of [key, d] in insertion order (the order of
\* Object.values for keys that are not array indices)
KeyIndex(grouped, key) ==
  IF \E i \in DOMAIN grouped : grouped[i].key = key
  THEN CHOOSE i \in DOMAIN grouped : grouped[i].key = key
  ELSE 0

\* one iteration of the for loop
RollupRow(grouped, r, catalogImages) ==
  LET style == Trim(r.Style)
      color == Trim(r.Color)
      key   == GroupKey(style, color)
      at    == KeyIndex(grouped, key)
  IN IF style = Blank THEN grouped
     ELSE IF at = 0
          THEN Append(grouped,
                 [key |-> key,
                  d   |-> FoldRow(NewGroup(style, color), r, style, catalogImages)])
          ELSE [grouped EXCEPT ![at].d = FoldRow(@, r, style, catalogImages)]

RECURSIVE RollupFrom(_, _, _, _)
RollupFrom(grouped, rows, i, catalogImages) ==
  IF i > Len(rows) THEN grouped
  ELSE RollupFrom(RollupRow(grouped, rows[i], catalogImages), rows, i + 1,
                  catalogImages)

\* Object.values(grouped) after the loop
Rollup(rows, cacheRows) ==
  LET grouped == RollupFrom(<< >>, rows, 1, CatalogImagesOf(cacheRows))
  IN [i \in DOMAIN grouped |-> grouped[i].d]

\* the parameters of INSERT INTO aged_inventory for the group d: of the
\* fourteen, the key, sizes, total_remaining, po_no and image_url; sorted is
\* what sortSizes(d.sizes) returned
InsertParams(d, sorted) ==
  [style |-> d.style, color |-> d.color, sizes |-> Join(sorted),
   total_remaining |-> d.total_remaining, po_no |-> d.po_no,
   image_url |-> d.image_url]

-----------------------------------------------------------------------------
(* The rollup alone, on every batch of at most MaxRows rows *)

MaxRows == 2

StyleValues == { <<" ">>, <<"A">>, <<" ", "A">>, <<"A", "|", "B">> }
ColorValues == { << >>, <<" ">>, <<"B", "|">> }
CadValues   == { <<" ">>, <<"u">>, <<" ", "v">> }

RowValues ==
  [Style : StyleValues, Color : ColorValues, CAD_Link : CadValues,
   Commodity : {Blank}, Inventory_Age : {Blank}, Age_Bracket : {Blank},
   Trsc_Date : {Blank}, Size : {Blank}, Remaining_Stock : {Blank},
   PO_No : {Blank}]

CacheValues ==
  { << >>,
    << [style |-> <<"A">>, image_url |-> <<"c">>] >>,
    << [style |-> <<"A", "|", "B">>, image_url |-> <<"d">>],
       [style |-> <<"A">>, image_url |-> <<"c">>] >> }

RollupInit ==
  /\ in_rows \in UNION { [1..n -> RowValues] : n \in 0..MaxRows }
  /\ in_cache \in CacheValues
  /\ out_groups = << >>
  /\ rpc = "ready"

\* the batches the merge policies are tried on: rows of two groups
CommodityValues == { Blank, <<"K">>, <<"L", " ">> }
AgeValues       == { <<"0">>, <<"7">>, <<"7", ".", "5">>, <<"1", ",", "2">>, <<"x">> }
BracketValues   == { <<"b">>, <<"c">> }
DateValues      == { <<"d">>, <<" ", "e">> }

MergeRowValues ==
  [Style : {<<"A">>}, Color : {Blank, <<"R">>}, CAD_Link : {Blank},
   Commodity : CommodityValues, Inventory_Age : AgeValues,
   Age_Bracket : BracketValues, Trsc_Date : DateValues,
   Size : {Blank}, Remaining_Stock : {Blank}, PO_No : {Blank}]

MergeInit ==
  /\ in_rows \in UNION { [1..n -> MergeRowValues] : n \in 0..MaxRows }
  /\ in_cache = << >>
  /\ out_groups = << >>
  /\ rpc = "ready"

\* the batches the sizes are tried on: rows of one group
MaxSizes == 4

SizeValues ==
  { Blank, <<"X", "S">>, <<"M">>, <<"L", " ">>, <<"Q">>, <<"P">>,
    <<"v", "a", "l", "u", "e", "O", "f">> }

SizeRowValues ==
  [Style : {<<"A">>}, Color : {Blank}, CAD_Link : {Blank}, Commodity : {Blank},
   Inventory_Age : {Blank}, Age_Bracket : {Blank}, Trsc_Date : {Blank},
   Size : SizeValues, Remaining_Stock : {Blank}, PO_No : {Blank}]

SizesInit ==
  /\ in_rows \in UNION { [1..n -> SizeRowValues] : n \in 0..MaxSizes }
  /\ in_cache = << >>
  /\ out_groups = << >>
  /\ rpc = "ready"

\* the batches the sums and the purchase order are tried on: rows of two groups
StockValues ==
  { Blank, <<"x">>, <<"5">>, <<"1", ",", "2", "0", "0">>, <<"2", ".", "5">> }
PoValues == { Blank, <<" ">>, <<"P", " ">>, <<"Q">> }

TotalsRowValues ==
  [Style : {<<"A">>}, Color : {Blank, <<"R">>}, CAD_Link : {Blank},
   Commodity : {Blank}, Inventory_Age : {Blank}, Age_Bracket : {Blank},
   Trsc_Date : {Blank}, Size : {Blank}, Remaining_Stock : StockValues,
   PO_No : PoValues]

TotalsInit ==
  /\ in_rows \in UNION { [1..n -> TotalsRowValues] : n \in 0..MaxRows }
  /\ in_cache = << >>
  /\ out_groups = << >>
  /\ rpc = "ready"

\* the rollup and, for each group, the parameters of its INSERT
InsertRun ==
  /\ rpc = "ready"
  /\ LET groups == Rollup(in_rows, in_cache)
     IN \E sorted \in [DOMAIN groups ->
                         UNION { sortSizes(groups[i].sizes) : i \in DOMAIN groups }] :
          /\ \A i \in DOMAIN groups : sorted[i] \in sortSizes(groups[i].sizes)
          /\ out_groups' = [i \in DOMAIN groups |->
                              InsertParams(groups[i], sorted[i])]
  /\ rpc' = "done"
  /\ UNCHANGED <<in_rows, in_cache>>
  /\ UNCHANGED serverVars
  /\ UNCHANGED tokenVars

RollupRun ==
  /\ rpc = "ready"
  /\ out_groups' = Rollup(in_rows, in_cache)
  /\ rpc' = "done"
  /\ UNCHANGED <<in_rows, in_cache>>
  /\ UNCHANGED serverVars
  /\ UNCHANGED tokenVars

-----------------------------------------------------------------------------
(* The tables *)

\* a faulty upsert: ON CONFLICT (style) DO NOTHING
UpsertKeepsFirst(tbl, style, img) ==
  IF \E i \in DOMAIN tbl : tbl[i].style = style THEN tbl
  ELSE Append(tbl, [style |-> style, image_url |-> img])

\* a faulty upsert: a plain INSERT on a table with no UNIQUE (style)
UpsertInsertsOnly(tbl, style, img) ==
  Append(tbl, [style |-> style, image_url |-> img])

\* a faulty upsert: the table is emptied before the row is inserted
UpsertReplacesAll(tbl, style, img) ==
  << [style |-> style, image_url |-> img] >>

\* INSERT INTO catalog_images (style, image_url, updated_at) VALUES ($1, $2, NOW())
\* ON CONFLICT (style) DO UPDATE SET image_url = $2, updated_at = NOW()
Upsert(tbl, style, img) ==
  IF \E i \in DOMAIN tbl : tbl[i].style = style
  THEN [i \in DOMAIN tbl |->
          IF tbl[i].style = style THEN [tbl[i] EXCEPT !.image_url = img]
          ELSE tbl[i]]
  ELSE Append(tbl, [style |-> style, image_url |-> img])

\* the catalog_images row the UPDATE joins to ai's row i, 0 if none
CatalogRowFor(ai, ci, i) ==
  IF \E j \in DOMAIN ci : ci[j].style = ai[i].style
  THEN CHOOSE j \in DOMAIN ci :
         /\ ci[j].style = ai[i].style
         /\ \A k \in DOMAIN ci : ci[k].style = ai[i].style => j <= k
  ELSE 0

\* a faulty backfill: no test of ai.image_url in the WHERE
BackfillOverwrites(ai, ci) ==
  [i \in DOMAIN ai |->
     IF CatalogRowFor(ai, ci, i) # 0
     THEN [ai[i] EXCEPT !.image_url = ci[CatalogRowFor(ai, ci, i)].image_url]
     ELSE ai[i]]

\* a faulty backfill: no test of ai.image_url in the WHERE, and
\* SET image_url = ai.image_url || ci.image_url
BackfillAppends(ai, ci) ==
  [i \in DOMAIN ai |->
     IF CatalogRowFor(ai, ci, i) # 0
     THEN [ai[i] EXCEPT !.image_url = @ \o ci[CatalogRowFor(ai, ci, i)].image_url]
     ELSE ai[i]]

\* UPDATE aged_inventory ai SET image_url = ci.image_url FROM catalog_images ci
\* WHERE ai.style = ci.style AND (ai.image_url IS NULL OR ai.image_url = '')
Backfill(ai, ci) ==
  [i \in DOMAIN ai |->
     IF ai[i].image_url = Blank /\ CatalogRowFor(ai, ci, i) # 0
     THEN [ai[i] EXCEPT !.image_url = ci[CatalogRowFor(ai, ci, i)].image_url]
     ELSE ai[i]]

\* a faulty delete: no row is removed
\* DELETE FROM aged_inventory WHERE NOT flagged
DeleteUnflagged(ai) == SelectSeq(ai, LAMBDA row : row.flagged)

\* the flag of a missing row is kept by inserting the row
SetFlaggedOrInsert(ai, flagged, item) ==
  IF \E i \in DOMAIN ai : ai[i].style = item.style /\ ai[i].color = item.color
  THEN [i \in DOMAIN ai |->
          IF ai[i].style = item.style /\ ai[i].color = item.color
          THEN [ai[i] EXCEPT !.flagged = flagged]
          ELSE ai[i]]
  ELSE Append(ai, [style |-> item.style, color |-> item.color,
                   image_url |-> Blank, flagged |-> flagged])

DeleteNone(ai) == ai

\* DELETE FROM aged_inventory
DeleteAll(ai) == << >>

\* the row INSERT INTO aged_inventory writes for the group d; flagged is not
\* among the columns and takes its DEFAULT false
InsertedRow(d) ==
  [style |-> d.style, color |-> d.color, image_url |-> d.image_url,
   flagged |-> FALSE]

\* UPDATE aged_inventory SET flagged = $1 WHERE style = $2 AND color = $3
SetFlagged(ai, flagged, item) ==
  [i \in DOMAIN ai |->
     IF ai[i].style = item.style /\ ai[i].color = item.color
     THEN [ai[i] EXCEPT !.flagged = flagged]
     ELSE ai[i]]

\* history: the upsert of (style, img) is the latest one for style
Latest(last, style, img) ==
  [s \in DOMAIN last \cup {style} |-> IF s = style THEN img ELSE last[s]]

-----------------------------------------------------------------------------------------------------------------------------------------------------
(* The requests the model sends *)

MaxImports  == 2
MaxSyncs    == 2
MaxOps      == 3

ImportReqs == 1..MaxImports
SyncRuns   == 1..MaxSyncs

NoCsv  == [kind |-> "none", rows |-> << >>]   \* neither req.file nor req.body.csv
BadCsv == [kind |-> "bad",  rows |-> << >>]   \* parse() throws
Csv(rows) == [kind |-> "rows", rows |-> rows]

LowValueRow(style, color, cad) ==
  [Style |-> style, Color |-> color, CAD_Link |-> cad, Commodity |-> Blank,
   Inventory_Age |-> Blank, Age_Bracket |-> Blank, Trsc_Date |-> Blank,
   Size |-> Blank, Remaining_Stock |-> Blank, PO_No |-> Blank]

LowValueCsvs ==
  { NoCsv, BadCsv,
    Csv(<< >>),
    Csv(<< LowValueRow(<<" ", "A">>, <<"R">>, << >>),
           LowValueRow(<<"B">>, <<"R">>, <<"u">>) >>) }

CatalogRow(style, img) == [StyleName |-> style, StyleImage |-> img]

CatalogCsvs ==
  { NoCsv, BadCsv,
    Csv(<< CatalogRow(Grand \o <<"X">>, <<"c">>),
           CatalogRow(<<"A">>, <<"c">>),
           CatalogRow(<<" ">>, <<"c">>),
           CatalogRow(<<"C">>, <<" ">>),
           CatalogRow(<<"B", " ">>, <<" ", "d">>) >>) }

ProductRow(style, img) == [base_style |-> style, image_url |-> img]

\* what SELECT base_style, image_url FROM products WHERE image_url IS NOT NULL
\* AND image_url != '' can return
ProductResults ==
  { << >>,
    << ProductRow(Null, <<"e">>), ProductRow(<<"A", " ">>, <<"e">>) >> }

Item(style, color) == [style |-> style, color |-> color]

FlagItems ==
  { << >>,
    << Item(<<"A">>, <<"R">>) >> }

-----------------------------------------------------------------------------
(* The requests in flight *)

ImportActive(q) == imp[q].pc \in {"select", "delete", "insert"}
FlagActive      == flg.pc = "update"
CatActive       == cat.pc \in {"upsert", "backfill"}
SyncActive(k)   == syn[k].pc \in {"read", "upsert", "backfill", "count"}

\* An answered request stays "done" for one step, in which its answer and the
\* tables can be read together, and is then forgotten (Close); nothing else
\* runs in between, which loses no behaviour of the server: Close changes no
\* table.
Quiet ==
  /\ \A q \in ImportReqs : imp[q].pc # "done"
  /\ \A k \in SyncRuns : syn[k].pc # "done"
  /\ flg.pc # "done"
  /\ cat.pc # "done"

\* the slots are interchangeable: a new request takes the lowest free one
FreeImport(r) == ~ImportActive(r) /\ \A q \in ImportReqs : q < r => ImportActive(q)
FreeSync(k)   == ~SyncActive(k) /\ \A j \in SyncRuns : j < k => SyncActive(j)

\* a faulty startup: the timer is armed and the server listens before the
\* first run of syncCatalogImages is awaited
AcceptsEarly == Quiet /\ boot \in {"sync", "up"} /\ ops < MaxOps

\* the server listens, and the model lets one more request or timer run start
Accepts == Quiet /\ boot = "up" /\ ops < MaxOps

-----------------------------------------------------------------------------
(* POST /api/import/low-value *)

ImpIdle ==
  [pc |-> "idle", rows |-> << >>, groups |-> << >>, next |-> 0, res |-> 0,
   overlap |-> FALSE, flagRan |-> FALSE, before |-> {}, flagSince |-> "none"]

\* history: the (style, color, flagged) of the rows persisted at this moment
FlagsOf(ai) == { <<ai[i].style, ai[i].color, ai[i].flagged>> : i \in DOMAIN ai }

\* a faulty catch: the failure is logged and the request is never answered
ImpAnsweredOnlyOk(run, res) ==
  [ImpIdle EXCEPT !.pc = "done", !.res = IF res = 500 THEN 0 ELSE res,
                  !.groups = run.groups, !.overlap = run.overlap,
                  !.flagRan = run.flagRan, !.before = run.before,
                  !.flagSince = run.flagSince]

\* res.json / res.status(..).json: the request is answered and over
ImpAnswered(run, res) ==
  [ImpIdle EXCEPT !.pc = "done", !.res = res, !.groups = run.groups,
                  !.overlap = run.overlap, !.flagRan = run.flagRan,
                  !.before = run.before, !.flagSince = run.flagSince]

\* the handler up to its first await: the csv is read and parsed and the SELECT
\* on catalog_images is sent
ImportStart(r, csv) ==
  /\ Accepts
  /\ FreeImport(r)
  /\ LET others == { q \in ImportReqs \ {r} : ImportActive(q) }
     IN imp' = [q \in ImportReqs |->
          IF q = r
          THEN IF csv.kind = "none"
               THEN ImpAnswered([ImpIdle EXCEPT !.before = FlagsOf(aged_inventory)], 400)
               ELSE IF csv.kind = "bad"
               THEN ImpAnswered([ImpIdle EXCEPT !.before = FlagsOf(aged_inventory)], 500)
               ELSE [ImpIdle EXCEPT !.pc = "select", !.rows = csv.rows,
                                    !.overlap = (others # {}),
                                    !.before = FlagsOf(aged_inventory)]
          ELSE IF q \in others /\ csv.kind = "rows"
               THEN [imp[q] EXCEPT !.overlap = TRUE]
               ELSE imp[q]]
  /\ UNCHANGED <<aged_inventory, catalog_images, boot, flg, cat, syn,
                 lastUpsert>>
  /\ ops' = ops + 1
  /\ UNCHANGED restAtStart

\* the SELECT answers; the rows are rolled up; the DELETE is sent
ImportSelect(r) ==
  /\ Quiet
  /\ imp[r].pc = "select"
  /\ imp' = [imp EXCEPT ![r].pc = "delete",
                        ![r].groups = Rollup(imp[r].rows, catalog_images)]
  /\ UNCHANGED <<aged_inventory, catalog_images, boot, flg, cat, syn,
                 lastUpsert>>
  /\ UNCHANGED rest

\* DELETE FROM aged_inventory; then the first INSERT is sent, or the answer
ImportDelete(r) ==
  /\ Quiet
  /\ imp[r].pc = "delete"
  /\ aged_inventory' = DeleteAll(aged_inventory)
  /\ imp' = IF imp[r].groups = << >>
            THEN [imp EXCEPT ![r] = ImpAnswered(imp[r], 200)]
            ELSE [imp EXCEPT ![r].pc = "insert", ![r].next = 1]
  /\ UNCHANGED <<catalog_images, boot, flg, cat, syn, lastUpsert>>
  /\ UNCHANGED rest

\* one INSERT; then the next one is sent, or the answer
ImportInsert(r) ==
  /\ Quiet
  /\ imp[r].pc = "insert"
  /\ aged_inventory' = Append(aged_inventory, InsertedRow(imp[r].groups[imp[r].next]))
  /\ imp' = IF imp[r].next = Len(imp[r].groups)
            THEN [imp EXCEPT ![r] = ImpAnswered(imp[r], 200)]
            ELSE [imp EXCEPT ![r].next = @ + 1]
  /\ UNCHANGED <<catalog_images, boot, flg, cat, syn, lastUpsert>>
  /\ UNCHANGED rest

\* the pending query rejects: catch answers 500
ImportFail(r) ==
  /\ Quiet
  /\ ImportActive(r)
  /\ imp' = [imp EXCEPT ![r] = ImpAnswered(imp[r], 500)]
  /\ UNCHANGED <<aged_inventory, catalog_images, boot, flg, cat, syn,
                 lastUpsert>>
  /\ UNCHANGED rest

-----------------------------------------------------------------------------
(* POST /api/flag *)

FlgIdle == [pc |-> "idle", items |-> << >>, flagged |-> FALSE, next |-> 0, res |-> 0]

FlgAnswered(res) == [FlgIdle EXCEPT !.pc = "done", !.res = res]

FlagStart(items, flagged) ==
  /\ Accepts
  /\ ~FlagActive
  /\ flg' = IF items = << >>
            THEN FlgAnswered(200)
            ELSE [FlgIdle EXCEPT !.pc = "update", !.items = items,
                                 !.flagged = flagged, !.next = 1]
  /\ UNCHANGED <<aged_inventory, catalog_images, boot, imp, cat, syn,
                 lastUpsert>>
  /\ ops' = ops + 1
  /\ UNCHANGED restAtStart

\* history: what the UPDATE for item means to an import whose DELETE has run.
\* "set": an UPDATE to true has matched a row since the DELETE; "missed": none
\* has, and one that matched no row was the last of a request answered 200
FlagSince(since, ai, flagged, item, answered) ==
  IF ~flagged \/ since = "set" THEN since
  ELSE IF \E i \in DOMAIN ai : ai[i].style = item.style /\ ai[i].color = item.color
       THEN "set"
       ELSE IF answered THEN "missed" ELSE since

FlagUpdate ==
  /\ Quiet
  /\ flg.pc = "update"
  /\ aged_inventory' = SetFlagged(aged_inventory, flg.flagged, flg.items[flg.next])
  /\ flg' = IF flg.next = Len(flg.items)
            THEN FlgAnswered(200)
            ELSE [flg EXCEPT !.next = @ + 1]
  /\ imp' = [q \in ImportReqs |->
               IF ImportActive(q)
               THEN [imp[q] EXCEPT
                       !.flagRan = TRUE,
                       !.flagSince =
                         IF imp[q].pc = "insert"
                         THEN FlagSince(@, aged_inventory, flg.flagged,
                                        flg.items[flg.next],
                                        flg.next = Len(flg.items))
                         ELSE @]
               ELSE imp[q]]
  /\ UNCHANGED <<catalog_images, boot, cat, syn, lastUpsert>>
  /\ UNCHANGED rest

FlagFail ==
  /\ Quiet
  /\ flg.pc = "update"
  /\ flg' = FlgAnswered(500)
  /\ UNCHANGED <<aged_inventory, catalog_images, boot, imp, cat, syn,
                 lastUpsert>>
  /\ UNCHANGED rest

-----------------------------------------------------------------------------
(* POST /api/import/catalog *)

CatIdle == [pc |-> "idle", rows |-> << >>, next |-> 0, res |-> 0]

CatAnswered(res) == [CatIdle EXCEPT !.pc = "done", !.res = res]

CatalogSkipsBlankOnly(r) ==
  \/ Trim(r.StyleName) = Blank
  \/ Trim(r.StyleImage) = Blank

\* if (!style || style.startsWith('Grand') || !img) continue;
CatalogSkips(r) ==
  \/ Trim(r.StyleName) = Blank
  \/ StartsWith(Trim(r.StyleName), Grand)
  \/ Trim(r.StyleImage) = Blank

\* the first row from i on that the loop upserts, Len(rows) + 1 if none
RECURSIVE NextCatalogRow(_, _)
NextCatalogRow(rows, i) ==
  IF i > Len(rows) THEN i
  ELSE IF CatalogSkips(rows[i]) THEN NextCatalogRow(rows, i + 1) ELSE i

\* the loop runs to its next await: an upsert, or after the last row the backfill
CatAt(rows, i) ==
  LET n == NextCatalogRow(rows, i)
  IN [pc |-> IF n > Len(rows) THEN "backfill" ELSE "upsert",
      rows |-> rows, next |-> n, res |-> 0]

CatStart(csv) ==
  /\ Accepts
  /\ ~CatActive
  /\ cat' = IF csv.kind = "none" THEN CatAnswered(400)
            ELSE IF csv.kind = "bad" THEN CatAnswered(500)
            ELSE CatAt(csv.rows, 1)
  /\ UNCHANGED <<aged_inventory, catalog_images, boot, imp, flg, syn,
                 lastUpsert>>
  /\ ops' = ops + 1
  /\ UNCHANGED restAtStart

CatUpsert ==
  /\ Quiet
  /\ cat.pc = "upsert"
  /\ LET style == Trim(cat.rows[cat.next].StyleName)
         img   == Trim(cat.rows[cat.next].StyleImage)
     IN /\ catalog_images' = Upsert(catalog_images, style, img)
        /\ lastUpsert' = Latest(lastUpsert, style, img)
  /\ cat' = CatAt(cat.rows, cat.next + 1)
  /\ UNCHANGED <<aged_inventory, boot, imp, flg, syn>>
  /\ UNCHANGED rest

CatBackfill ==
  /\ Quiet
  /\ cat.pc = "backfill"
  /\ aged_inventory' = Backfill(aged_inventory, catalog_images)
  /\ cat' = CatAnswered(200)
  /\ UNCHANGED <<catalog_images, boot, imp, flg, syn, lastUpsert>>
  /\ UNCHANGED rest

CatFail ==
  /\ Quiet
  /\ CatActive
  /\ cat' = CatAnswered(500)
  /\ UNCHANGED <<aged_inventory, catalog_images, boot, imp, flg, syn,
                 lastUpsert>>
  /\ UNCHANGED rest

-----------------------------------------------------------------------------
(* syncCatalogImages, called by the startup chain, by the interval timer and  *)
(* by POST /api/sync-catalog-images                                           *)

SynIdle == [pc |-> "idle", by |-> "none", rows |-> << >>, next |-> 0, res |-> 0]

SynAnswered(res) == [SynIdle EXCEPT !.pc = "done", !.by = "request", !.res = res]

\* if (!row.base_style || !row.image_url) continue;
ProductSkips(r) ==
  \/ r.base_style = Null \/ r.base_style = Blank
  \/ r.image_url = Null \/ r.image_url = Blank

RECURSIVE NextProductRow(_, _)
NextProductRow(rows, i) ==
  IF i > Len(rows) THEN i
  ELSE IF ProductSkips(rows[i]) THEN NextProductRow(rows, i + 1) ELSE i

\* the upsert of one row of the products result
ProductUpsert(ci, r) == Upsert(ci, Trim(r.base_style), r.image_url)

\* the whole loop of upserts over the products result
RECURSIVE PullFrom(_, _, _)
PullFrom(ci, rows, i) ==
  LET n == NextProductRow(rows, i)
  IN IF n > Len(rows) THEN ci
     ELSE PullFrom(ProductUpsert(ci, rows[n]), rows, n + 1)

Pull(ci, rows) == PullFrom(ci, rows, 1)

\* syncCatalogImages returns to its caller: the startup chain arms the timer and
\* listens, the request handler sends its COUNT query, the timer has no caller
SynReturned(run) ==
  IF run.by = "request" THEN [SynIdle EXCEPT !.pc = "count", !.by = "request"]
  ELSE SynIdle

\* a faulty startup: the run's error reaches the .catch of the startup chain
BootAfterThrows(run) == IF run.by = "startup" THEN "exited" ELSE boot

\* the startup chain after await syncCatalogImages(): setInterval, app.listen
BootAfter(run) == IF run.by = "startup" THEN "up" ELSE boot

\* the loop runs to its next await: an upsert, or after the last row the backfill
SynAt(run, rows, i) ==
  LET n == NextProductRow(rows, i)
  IN [run EXCEPT !.pc = IF n > Len(rows) THEN "backfill" ELSE "upsert",
                 !.rows = rows, !.next = n]

\* initDB() resolved: the startup chain calls syncCatalogImages
InitDB ==
  /\ boot = "init"
  /\ IF catalogPool
     THEN /\ boot' = "sync"
          /\ syn' = [syn EXCEPT ![1] = [SynIdle EXCEPT !.pc = "read", !.by = "startup"]]
     ELSE /\ boot' = "up"
          /\ syn' = syn
  /\ UNCHANGED <<aged_inventory, catalog_images, imp, flg, cat, lastUpsert>>
  /\ UNCHANGED rest

\* initDB() rejected: process.exit(1)
InitDBFail ==
  /\ boot = "init"
  /\ boot' = "exited"
  /\ UNCHANGED <<aged_inventory, catalog_images, imp, flg, cat, syn,
                 lastUpsert>>
  /\ UNCHANGED rest

\* the interval timer fires
SyncTimer(k) ==
  /\ Accepts
  /\ FreeSync(k)
  /\ syn' = IF catalogPool
            THEN [syn EXCEPT ![k] = [SynIdle EXCEPT !.pc = "read", !.by = "timer"]]
            ELSE syn
  /\ UNCHANGED <<aged_inventory, catalog_images, boot, imp, flg, cat,
                 lastUpsert>>
  /\ ops' = ops + 1
  /\ UNCHANGED restAtStart

\* POST /api/sync-catalog-images
SyncRequest(k) ==
  /\ Accepts
  /\ FreeSync(k)
  /\ syn' = IF catalogPool
            THEN [syn EXCEPT ![k] = [SynIdle EXCEPT !.pc = "read", !.by = "request"]]
            ELSE [syn EXCEPT ![k] = SynAnswered(400)]
  /\ UNCHANGED <<aged_inventory, catalog_images, boot, imp, flg, cat,
                 lastUpsert>>
  /\ ops' = ops + 1
  /\ UNCHANGED restAtStart

\* the SELECT on products answers
SyncRead(k, rows) ==
  /\ Quiet
  /\ syn[k].pc = "read"
  /\ IF Len(rows) = 0
     THEN /\ syn' = [syn EXCEPT ![k] = SynReturned(syn[k])]
          /\ boot' = BootAfter(syn[k])
     ELSE /\ syn' = [syn EXCEPT ![k] = SynAt(syn[k], rows, 1)]
          /\ boot' = boot
  /\ UNCHANGED <<aged_inventory, catalog_images, imp, flg, cat, lastUpsert>>
  /\ UNCHANGED rest

SyncUpsert(k) ==
  /\ Quiet
  /\ syn[k].pc = "upsert"
  /\ LET style == Trim(syn[k].rows[syn[k].next].base_style)
         img   == syn[k].rows[syn[k].next].image_url
     IN /\ catalog_images' = ProductUpsert(catalog_images, syn[k].rows[syn[k].next])
        /\ lastUpsert' = Latest(lastUpsert, style, img)
  /\ syn' = [syn EXCEPT ![k] = SynAt(syn[k], syn[k].rows, syn[k].next + 1)]
  /\ UNCHANGED <<aged_inventory, boot, imp, flg, cat>>
  /\ UNCHANGED rest

SyncBackfill(k) ==
  /\ Quiet
  /\ syn[k].pc = "backfill"
  /\ aged_inventory' = Backfill(aged_inventory, catalog_images)
  /\ syn' = [syn EXCEPT ![k] = SynReturned(syn[k])]
  /\ boot' = BootAfter(syn[k])
  /\ UNCHANGED <<catalog_images, imp, flg, cat, lastUpsert>>
  /\ UNCHANGED rest

\* a query of the run rejects: catch logs, and the run returns
SyncFail(k) ==
  /\ Quiet
  /\ syn[k].pc \in {"read", "upsert", "backfill"}
  /\ syn' = [syn EXCEPT ![k] = SynReturned(syn[k])]
  /\ boot' = BootAfter(syn[k])
  /\ UNCHANGED <<aged_inventory, catalog_images, imp, flg, cat, lastUpsert>>
  /\ UNCHANGED rest

\* SELECT COUNT(*) FROM catalog_images answers (200) or rejects (500)
SyncCount(k, ok) ==
  /\ Quiet
  /\ syn[k].pc = "count"
  /\ syn' = [syn EXCEPT ![k] = SynAnswered(IF ok THEN 200 ELSE 500)]
  /\ UNCHANGED <<aged_inventory, catalog_images, boot, imp, flg, cat,
                 lastUpsert>>
  /\ UNCHANGED rest

-----------------------------------------------------------------------------
(* getZohoAccessToken and GET /api/image-proxy *)

MaxProxies == 2
MaxCalls   == 3
MaxTicks   == 2

ProxyReqs == 1..MaxProxies

\* process.env: ZOHO_REFRESH_TOKEN, ZOHO_CLIENT_ID and ZOHO_CLIENT_SECRET, each
\* present or not
Envs ==
  { [refresh |-> TRUE,  id |-> TRUE,  secret |-> TRUE],
    [refresh |-> FALSE, id |-> TRUE,  secret |-> TRUE],
    [refresh |-> TRUE,  id |-> FALSE, secret |-> TRUE],
    [refresh |-> TRUE,  id |-> TRUE,  secret |-> FALSE] }

\* what SELECT refresh_token FROM zoho_tokens ... LIMIT 1 answers: no row, a row
\* with a refresh_token, a row whose refresh_token is null
StoreResults == { << >>, << [refresh_token |-> <<"r">>] >>, << [refresh_token |-> Null] >> }

\* what resp.json() gives: the body of the issuer's answer, expires_in in seconds
Data(token, secs) == [access_token |-> token, expires_in |-> secs]

IssuerData ==
  { Data(<<"T", "1">>, 120), Data(<<"T", "2">>, 90), Data(Null, 0) }

\* a value is truthy: neither null / undefined nor ''
Truthy(v) == v # Null /\ v # Blank

\* a faulty test of the cache: the token is always taken for expired
CacheNeverValid(tok, exp, t) == FALSE

\* zohoAccessToken && Date.now() < tokenExpiry
CacheValid(tok, exp, t) == Truthy(tok) /\ t < exp

\* !refreshToken || !clientId || !clientSecret
MissingCredentials(e, hasRefresh) == ~hasRefresh \/ ~e.id \/ ~e.secret

\* a faulty expiry: the 60 s are not subtracted
ExpiryNoMargin(t, data) == t + data.expires_in * 1000

\* Date.now() + (data.expires_in - 60) * 1000
Expiry(t, data) == t + (data.expires_in - 60) * 1000

\* a faulty exchange: an answer with no access_token empties the cache
CacheAfterClears(tok, exp, t, data) ==
  IF Truthy(data.access_token) THEN <<data.access_token, Expiry(t, data)>>
  ELSE <<Null, 0>>

\* a faulty exchange: tokenExpiry is not assigned
CacheAfterTokenOnly(tok, exp, t, data) ==
  IF Truthy(data.access_token) THEN <<data.access_token, exp>>
  ELSE <<tok, exp>>

\* <<zohoAccessToken, tokenExpiry>> after the answer data, read at time t
CacheAfter(tok, exp, t, data) ==
  IF Truthy(data.access_token) THEN <<data.access_token, Expiry(t, data)>>
  ELSE <<tok, exp>>

\* pc: "idle", "query" (the SELECT on zoho_tokens), "exchange" (the POST to the
\* issuer), "json" (resp.json()), "fetch" (the GET of the image), "buffer"
\* (resp.buffer()), "done"; token is what getZohoAccessToken returned, auth
\* whether headers has an Authorization
PrxIdle == [pc |-> "idle", token |-> Null, auth |-> FALSE, res |-> 0]

PrxActive(p) == prx[p].pc \in {"query", "exchange", "json", "fetch", "buffer"}

FreeProxy(p) == ~PrxActive(p) /\ \A q \in ProxyReqs : q < p => PrxActive(q)

PrxQuiet == \A p \in ProxyReqs : prx[p].pc # "done"

\* a faulty handler: with no token the request is given up
AfterTokenAborts(run, token) ==
  IF Truthy(token)
  THEN [run EXCEPT !.pc = "fetch", !.token = token, !.auth = TRUE]
  ELSE [run EXCEPT !.pc = "done", !.res = 502, !.token = token]

\* getZohoAccessToken returned token: if (token) headers['Authorization'] = ..;
\* then fetch(url, { headers, redirect: 'follow' }) is sent
AfterToken(run, token) ==
  [run EXCEPT !.pc = "fetch", !.token = token, !.auth = Truthy(token)]

\* a guarded refresh: while an exchange is in flight no other one is sent
AfterCredentialsSingleFlight(run, hasRefresh) ==
  IF \/ MissingCredentials(env, hasRefresh)
     \/ \E q \in ProxyReqs : prx[q].pc \in {"exchange", "json"}
  THEN AfterToken(run, Null)
  ELSE [run EXCEPT !.pc = "exchange"]

\* the refresh token is resolved: the credentials are missing, or the POST to
\* the issuer is sent
AfterCredentials(run, hasRefresh) ==
  IF MissingCredentials(env, hasRefresh) THEN AfterToken(run, Null)
  ELSE [run EXCEPT !.pc = "exchange"]

\* the handler up to its first await
PrxStart(p, urlOk) ==
  /\ PrxQuiet
  /\ ops < MaxCalls
  /\ FreeProxy(p)
  /\ prx' = [prx EXCEPT ![p] =
       IF ~urlOk THEN [PrxIdle EXCEPT !.pc = "done", !.res = 400]
       ELSE IF CacheValid(zohoAccessToken, tokenExpiry, now)
            THEN AfterToken(PrxIdle, zohoAccessToken)
            ELSE IF catalogPool /\ ~env.refresh
                 THEN [PrxIdle EXCEPT !.pc = "query"]
                 ELSE AfterCredentials(PrxIdle, env.refresh)]
  /\ ops' = ops + 1
  /\ UNCHANGED <<zohoAccessToken, tokenExpiry, now, env, exchanged>>
  /\ UNCHANGED outsideProxy

\* the SELECT on zoho_tokens answers
PrxQuery(p, rows) ==
  /\ PrxQuiet
  /\ prx[p].pc = "query"
  /\ prx' = [prx EXCEPT ![p] =
       AfterCredentials(prx[p], Len(rows) > 0 /\ Truthy(rows[1].refresh_token))]
  /\ UNCHANGED <<zohoAccessToken, tokenExpiry, now, env, exchanged, ops>>
  /\ UNCHANGED outsideProxy

\* the POST to the issuer answers
PrxExchange(p) ==
  /\ PrxQuiet
  /\ prx[p].pc = "exchange"
  /\ prx' = [prx EXCEPT ![p].pc = "json"]
  /\ UNCHANGED <<zohoAccessToken, tokenExpiry, now, env, exchanged, ops>>
  /\ UNCHANGED outsideProxy

\* resp.json() answers data
PrxJson(p, data) ==
  /\ PrxQuiet
  /\ prx[p].pc = "json"
  /\ LET after == CacheAfter(zohoAccessToken, tokenExpiry, now, data)
     IN /\ zohoAccessToken' = after[1]
        /\ tokenExpiry' = after[2]
  /\ IF Truthy(data.access_token)
     THEN /\ prx' = [prx EXCEPT ![p] = AfterToken(prx[p], zohoAccessToken')]
          /\ exchanged' = Append(exchanged, <<data.access_token, now, data.expires_in>>)
     ELSE /\ prx' = [prx EXCEPT ![p] = AfterToken(prx[p], Null)]
          /\ exchanged' = exchanged
  /\ UNCHANGED <<now, env, ops>>
  /\ UNCHANGED outsideProxy

\* the pending await of getZohoAccessToken rejects: catch returns null
PrxTokenThrows(p) ==
  /\ PrxQuiet
  /\ prx[p].pc \in {"query", "exchange", "json"}
  /\ prx' = [prx EXCEPT ![p] = AfterToken(prx[p], Null)]
  /\ UNCHANGED <<zohoAccessToken, tokenExpiry, now, env, exchanged, ops>>
  /\ UNCHANGED outsideProxy

\* the GET of the image answers: ok, a status that is not ok, or it rejects
PrxFetch(p, how) ==
  /\ PrxQuiet
  /\ prx[p].pc = "fetch"
  /\ prx' = [prx EXCEPT ![p] =
       IF how = "ok" THEN [prx[p] EXCEPT !.pc = "buffer"]
       ELSE [prx[p] EXCEPT !.pc = "done", !.res = 502]]
  /\ UNCHANGED <<zohoAccessToken, tokenExpiry, now, env, exchanged, ops>>
  /\ UNCHANGED outsideProxy

\* resp.buffer() answers (res.send) or rejects (502)
PrxBuffer(p, ok) ==
  /\ PrxQuiet
  /\ prx[p].pc = "buffer"
  /\ prx' = [prx EXCEPT ![p] =
       IF ok THEN [prx[p] EXCEPT !.pc = "done", !.res = 200]
       ELSE [prx[p] EXCEPT !.pc = "done", !.res = 502]]
  /\ UNCHANGED <<zohoAccessToken, tokenExpiry, now, env, exchanged, ops>>
  /\ UNCHANGED outsideProxy

\* the answered request is forgotten
PrxClose ==
  /\ ~PrxQuiet
  /\ prx' = [p \in ProxyReqs |-> IF prx[p].pc = "done" THEN PrxIdle ELSE prx[p]]
  /\ UNCHANGED <<zohoAccessToken, tokenExpiry, now, env, exchanged, ops>>
  /\ UNCHANGED outsideProxy

\* time passes
Tick ==
  /\ PrxQuiet
  /\ now < MaxTicks * 30 * 1000
  /\ now' = now + 30 * 1000
  /\ UNCHANGED <<zohoAccessToken, tokenExpiry, env, prx, exchanged, ops>>
  /\ UNCHANGED outsideProxy

TokenInit ==
  /\ zohoAccessToken = Null
  /\ tokenExpiry = 0
  /\ now = 0
  /\ env \in Envs
  /\ prx = [p \in ProxyReqs |-> PrxIdle]
  /\ exchanged = << >>

TokenNext ==
  \/ \E p \in ProxyReqs : \E urlOk \in BOOLEAN : PrxStart(p, urlOk)
  \/ \E p \in ProxyReqs : \E rows \in StoreResults : PrxQuery(p, rows)
  \/ \E p \in ProxyReqs : PrxExchange(p)
  \/ \E p \in ProxyReqs : \E data \in IssuerData : PrxJson(p, data)
  \/ \E p \in ProxyReqs : PrxTokenThrows(p)
  \/ \E p \in ProxyReqs : \E how \in {"ok", "notok", "rejected"} : PrxFetch(p, how)
  \/ \E p \in ProxyReqs : \E ok \in BOOLEAN : PrxBuffer(p, ok)
  \/ PrxClose
  \/ Tick

-----------------------------------------------------------------------------
(* The server *)

\* the answered request is forgotten
Close ==
  /\ ~Quiet
  /\ imp' = [q \in ImportReqs |-> IF imp[q].pc = "done" THEN ImpIdle ELSE imp[q]]
  /\ syn' = [k \in SyncRuns |-> IF syn[k].pc = "done" THEN SynIdle ELSE syn[k]]
  /\ flg' = IF flg.pc = "done" THEN FlgIdle ELSE flg
  /\ cat' = IF cat.pc = "done" THEN CatIdle ELSE cat
  /\ UNCHANGED <<aged_inventory, catalog_images, boot, lastUpsert>>
  /\ UNCHANGED rest

NoUpsert == [s \in {} |-> Blank]

\* no request for an image is sent
TokenOff ==
  /\ zohoAccessToken = Null
  /\ tokenExpiry = 0
  /\ now = 0
  /\ env = [refresh |-> FALSE, id |-> FALSE, secret |-> FALSE]
  /\ prx = [p \in ProxyReqs |-> PrxIdle]
  /\ exchanged = << >>

Init ==
  /\ aged_inventory = << >>
  /\ catalog_images = << >>
  /\ catalogPool \in BOOLEAN
  /\ boot = "init"
  /\ imp = [r \in ImportReqs |-> ImpIdle]
  /\ flg = FlgIdle
  /\ cat = CatIdle
  /\ syn = [k \in SyncRuns |-> SynIdle]
  /\ lastUpsert = NoUpsert
  /\ ops = 0
  /\ in_rows = << >>
  /\ in_cache = << >>
  /\ out_groups = << >>
  /\ rpc = "off"
  /\ TokenOff

Next ==
  \/ InitDB
  \/ InitDBFail
  \/ \E r \in ImportReqs : \E csv \in LowValueCsvs : ImportStart(r, csv)
  \/ \E r \in ImportReqs : ImportSelect(r)
  \/ \E r \in ImportReqs : ImportDelete(r)
  \/ \E r \in ImportReqs : ImportInsert(r)
  \/ \E r \in ImportReqs : ImportFail(r)
  \/ \E items \in FlagItems : \E flagged \in BOOLEAN : FlagStart(items, flagged)
  \/ FlagUpdate
  \/ FlagFail
  \/ \E csv \in CatalogCsvs : CatStart(csv)
  \/ CatUpsert
  \/ CatBackfill
  \/ CatFail
  \/ \E k \in SyncRuns : SyncTimer(k)
  \/ \E k \in SyncRuns : SyncRequest(k)
  \/ \E k \in SyncRuns : \E rows \in ProductResults : SyncRead(k, rows)
  \/ \E k \in SyncRuns : SyncUpsert(k)
  \/ \E k \in SyncRuns : SyncBackfill(k)
  \/ \E k \in SyncRuns : SyncFail(k)
  \/ \E k \in SyncRuns : \E ok \in BOOLEAN : SyncCount(k, ok)
  \/ Close

Spec == Init /\ [][Next]_vars

\* the rollup alone
RollupStart ==
  /\ RollupInit
  /\ aged_inventory = << >>
  /\ catalog_images = << >>
  /\ catalogPool = FALSE
  /\ boot = "off"
  /\ imp = [r \in ImportReqs |-> ImpIdle]
  /\ flg = FlgIdle
  /\ cat = CatIdle
  /\ syn = [k \in SyncRuns |-> SynIdle]
  /\ lastUpsert = NoUpsert
  /\ ops = 0
  /\ TokenOff

RollupNext == RollupRun

SpecRollup == RollupStart /\ [][RollupNext]_vars

\* the merge policies of the rollup alone
MergeStart ==
  /\ MergeInit
  /\ aged_inventory = << >>
  /\ catalog_images = << >>
  /\ catalogPool = FALSE
  /\ boot = "off"
  /\ imp = [r \in ImportReqs |-> ImpIdle]
  /\ flg = FlgIdle
  /\ cat = CatIdle
  /\ syn = [k \in SyncRuns |-> SynIdle]
  /\ lastUpsert = NoUpsert
  /\ ops = 0
  /\ TokenOff

SpecMerge == MergeStart /\ [][RollupNext]_vars

\* off: what the rollup alone leaves at its initial value
ServerOff ==
  /\ aged_inventory = << >>
  /\ catalog_images = << >>
  /\ catalogPool = FALSE
  /\ boot = "off"
  /\ imp = [r \in ImportReqs |-> ImpIdle]
  /\ flg = FlgIdle
  /\ cat = CatIdle
  /\ syn = [k \in SyncRuns |-> SynIdle]
  /\ lastUpsert = NoUpsert
  /\ ops = 0

InsertNext == InsertRun

\* the sizes of the rollup, up to the INSERT's parameters
SizesStart == SizesInit /\ ServerOff /\ TokenOff

SpecSizes == SizesStart /\ [][InsertNext]_vars

\* the sums and the purchase order of the rollup, up to the INSERT's parameters
TotalsStart == TotalsInit /\ ServerOff /\ TokenOff

SpecTotals == TotalsStart /\ [][InsertNext]_vars

\* the token cache and the image proxy alone
TokenStart ==
  /\ TokenInit
  /\ aged_inventory = << >>
  /\ catalog_images = << >>
  /\ catalogPool \in BOOLEAN
  /\ boot = "up"
  /\ imp = [r \in ImportReqs |-> ImpIdle]
  /\ flg = FlgIdle
  /\ cat = CatIdle
  /\ syn = [k \in SyncRuns |-> SynIdle]
  /\ lastUpsert = NoUpsert
  /\ ops = 0
  /\ in_rows = << >>
  /\ in_cache = << >>
  /\ out_groups = << >>
  /\ rpc = "off"

SpecToken == TokenStart /\ [][TokenNext]_vars

-----------------------------------------------------------------------------
(* Properties of the low-value import *)

SameKey(a, b) == a.style = b.style /\ a.color = b.color

\* the persisted rows are the groups, one row per group in the order of insertion;
\* a row's image_url is its group's, unless the group had none (backfill may
\* have filled it since)
PersistedAre(ai, groups) ==
  /\ Len(ai) = Len(groups)
  /\ \A i \in DOMAIN ai :
       /\ SameKey(ai[i], groups[i])
       /\ groups[i].image_url # Blank => ai[i].image_url = groups[i].image_url

ImportSucceeded(r) == imp[r].pc = "done" /\ imp[r].res = 200

\* C1: when a low-value import answers 200 and no other low-value import ran
\* between its start and its answer, the persisted aggregates are exactly the
\* groups of its batch, also when the batch has no group.
C1_ImportReplacesAll ==
  \A r \in ImportReqs :
    (ImportSucceeded(r) /\ ~imp[r].overlap) => PersistedAre(aged_inventory, imp[r].groups)

\* an import with no group has answered 200 where an earlier generation was
\* persisted at its start
C1_Witness ==
  \E r \in ImportReqs :
    /\ ImportSucceeded(r) /\ ~imp[r].overlap
    /\ imp[r].groups = << >>
    /\ imp[r].before # {}
    /\ aged_inventory = << >>

\* C2: whenever no low-value import is in progress, the table holds at most
\* one row per (style, color).
C2_OneRowPerKey ==
  (\A r \in ImportReqs : ~ImportActive(r)) =>
    \A i, j \in DOMAIN aged_inventory :
      SameKey(aged_inventory[i], aged_inventory[j]) => i = j

\* C3: a low-value import that answers 200 with no flag update run since its
\* start leaves the flagged value of every (style, color) that was persisted
\* at its start and is persisted at its answer as it was.
C3_FlaggedOnlyByFlag ==
  \A r \in ImportReqs :
    (ImportSucceeded(r) /\ ~imp[r].flagRan) =>
      \A i \in DOMAIN aged_inventory : \A b \in imp[r].before :
        (b[1] = aged_inventory[i].style /\ b[2] = aged_inventory[i].color)
          => aged_inventory[i].flagged = b[3]

-----------------------------------------------------------------------------
(* Properties of the rollup *)

PairOf(r) == <<Trim(r.Style), Trim(r.Color)>>

\* the rows with a non-blank style
Contributing(rows) == { i \in DOMAIN rows : Trim(rows[i].Style) # Blank }

Pairs(rows) == { PairOf(rows[i]) : i \in Contributing(rows) }

RowsOf(rows, style, color) ==
  { i \in Contributing(rows) : PairOf(rows[i]) = <<style, color>> }

\* C4: the rollup yields exactly one aggregate per distinct (trimmed style,
\* trimmed color) among the rows with a non-blank style, made of the rows of
\* that pair and of no other row.
C4_OneGroupPerPair ==
  rpc = "done" =>
    /\ Len(out_groups) = Cardinality(Pairs(in_rows))
    /\ \A p \in Pairs(in_rows) :
         \E g \in DOMAIN out_groups :
           /\ out_groups[g].style = p[1]
           /\ out_groups[g].color = p[2]
           /\ out_groups[g].cost_count = Cardinality(RowsOf(in_rows, p[1], p[2]))

Max(S) == CHOOSE x \in S : \A y \in S : y <= x

\* the image_url the priority chain gives the pair (style, color)
ExpectedImage(rows, cacheRows, style, color) ==
  LET withCad == { i \in RowsOf(rows, style, color) : Trim(rows[i].CAD_Link) # Blank }
  IN IF withCad # {} THEN Trim(rows[Max(withCad)].CAD_Link)
     ELSE IF \E j \in DOMAIN cacheRows : cacheRows[j].style = style
          THEN cacheRows[CHOOSE j \in DOMAIN cacheRows : cacheRows[j].style = style].image_url
          ELSE Blank

\* C5: the image_url of every group is the CAD_Link of the last row of the
\* group with a non-blank one, else the cache entry of the group's style,
\* else empty.
C5_ImagePriority ==
  rpc = "done" =>
    \A g \in DOMAIN out_groups :
      out_groups[g].image_url =
        ExpectedImage(in_rows, in_cache, out_groups[g].style, out_groups[g].color)

-----------------------------------------------------------------------------
(* Properties of the backfill *)

\* C6: no step changes the image_url of a persisted row that has one; the row
\* keeps it until DELETE removes the row.
C6_BackfillKeepsPopulated ==
  [][\A i \in DOMAIN aged_inventory :
       (i \in DOMAIN aged_inventory' /\ aged_inventory[i].image_url # Blank)
         => aged_inventory'[i].image_url = aged_inventory[i].image_url]_vars

\* the catalog import has run its backfill over a row whose image_url differs
\* from the cache entry of its style
C6_Witness ==
  /\ cat.pc = "done" /\ cat.res = 200
  /\ \E i \in DOMAIN aged_inventory : \E j \in DOMAIN catalog_images :
       /\ catalog_images[j].style = aged_inventory[i].style
       /\ aged_inventory[i].image_url # Blank
       /\ aged_inventory[i].image_url # catalog_images[j].image_url

\* C7: the backfill run twice on the same cache gives what it gives run once.
C7_BackfillIdempotent ==
  Backfill(Backfill(aged_inventory, catalog_images), catalog_images)
    = Backfill(aged_inventory, catalog_images)

\* a backfill has something to fill
C7_Witness ==
  /\ Backfill(aged_inventory, catalog_images) # aged_inventory
  /\ \E k \in SyncRuns : syn[k].pc = "backfill"

-----------------------------------------------------------------------------
(* Properties of the cross-reference cache *)

StylesOf(ci) == { ci[i].style : i \in DOMAIN ci }

\* C8: the cache holds exactly one row for every style upserted so far, with
\* the image_url of the latest upsert of that style, and no other row.
C8_OneEntryLatestWins ==
  /\ StylesOf(catalog_images) = DOMAIN lastUpsert
  /\ \A s \in DOMAIN lastUpsert :
       /\ Cardinality({ i \in DOMAIN catalog_images : catalog_images[i].style = s }) = 1
       /\ \A i \in DOMAIN catalog_images :
            catalog_images[i].style = s => catalog_images[i].image_url = lastUpsert[s]

\* a sync run has upserted a style and a catalog import has since upserted the
\* same style with another image_url
C8_Witness ==
  \E k \in SyncRuns :
    /\ syn[k].pc = "backfill"
    /\ \E i \in DOMAIN syn[k].rows :
         /\ ~ProductSkips(syn[k].rows[i])
         /\ Trim(syn[k].rows[i].base_style) \in DOMAIN lastUpsert
         /\ lastUpsert[Trim(syn[k].rows[i].base_style)] # syn[k].rows[i].image_url

\* products results the pull is tried on, among them one that names a style twice
PullResults ==
  ProductResults \cup
  { << ProductRow(<<"A">>, <<"e">>), ProductRow(<<" ", "A">>, <<"f">>) >>,
    << ProductRow(<<"B">>, <<"d">>), ProductRow(<<"C">>, <<"e">>) >> }

\* C9: the pull run twice on the same products result leaves the cache as the
\* pull run once leaves it.
C9_PullIdempotent ==
  \A rows \in PullResults :
    Pull(Pull(catalog_images, rows), rows) = Pull(catalog_images, rows)

\* a sync run has just finished its upserts over a cache that held another
\* image_url for one of its styles
C9_Witness ==
  \E k \in SyncRuns :
    /\ syn[k].pc = "backfill"
    /\ Len(catalog_images) >= 2
    /\ Pull(catalog_images, syn[k].rows) = catalog_images
    /\ \E rows \in PullResults : Pull(catalog_images, rows) # catalog_images

\* C10: no step removes a style from the cache.
C10_CacheNeverShrinks ==
  [][StylesOf(catalog_images) \subseteq StylesOf(catalog_images')]_vars

\* an upsert has overwritten an entry of a cache of two styles
C10_Witness ==
  /\ Len(catalog_images) = 2
  /\ cat.pc = "backfill"
  /\ \E k \in SyncRuns : syn[k].pc = "backfill"

-----------------------------------------------------------------------------
(* Properties of the token cache and of the image proxy *)

\* the step is p's call of getZohoAccessToken (the url was accepted)
CallStarts(p) == prx[p].pc = "idle" /\ prx'[p].pc # "idle" /\ prx'[p].res # 400

\* the step ends p's call of getZohoAccessToken
CallEnds(p) ==
  /\ prx[p].pc \in {"idle", "query", "exchange", "json"}
  /\ prx'[p].pc \in {"fetch", "buffer", "done"}
  /\ prx'[p].res # 400

CacheHit(p) == prx[p].pc = "idle" /\ zohoAccessToken # Null /\ now < tokenExpiry

\* the step ends p's call with neither a cached token nor an issued one
CallFails(p) == CallEnds(p) /\ ~CacheHit(p) /\ exchanged' = exchanged

\* now + D - 60 s of the exchange x = <<T, now, D>>
ExpiresAt(x) == x[2] + x[3] * 1000 - 60 * 1000

\* C12: a call made while a token is cached and the time is before its expiry
\* returns the cached token in the same step, so with no read of zoho_tokens
\* and no request to the issuer, and changes neither the token nor the expiry.
C12_CachedTokenReturned ==
  [][\A p \in ProxyReqs :
       (CallStarts(p) /\ zohoAccessToken # Null /\ now < tokenExpiry)
         => /\ prx'[p].pc = "fetch"
            /\ prx'[p].token = zohoAccessToken
            /\ zohoAccessToken' = zohoAccessToken
            /\ tokenExpiry' = tokenExpiry]_vars

\* two requests hold the cached token, issued once and still valid at a later
\* time, where the credentials would have to be read from zoho_tokens
C12_Witness ==
  /\ catalogPool /\ ~env.refresh
  /\ Len(exchanged) = 1
  /\ now > exchanged[1][2] /\ now < tokenExpiry
  /\ \A p \in ProxyReqs : prx[p].pc = "fetch" /\ prx[p].token = zohoAccessToken

\* C13 as stated: an exchange that answers T with duration D at time now stores
\* T with expiry now + D - 60 s and returns T; and every later call made
\* before the expires_at of any exchange so far returns that exchange's T.
C13_ExchangeCached ==
  [][/\ Len(exchanged') > Len(exchanged) =>
          LET x == exchanged'[Len(exchanged')]
          IN /\ zohoAccessToken' = x[1]
             /\ tokenExpiry' = ExpiresAt(x)
             /\ \E p \in ProxyReqs :
                  prx[p].pc = "json" /\ prx'[p].pc = "fetch" /\ prx'[p].token = x[1]
     /\ \A p \in ProxyReqs : \A i \in DOMAIN exchanged :
          (CallStarts(p) /\ now < ExpiresAt(exchanged[i]))
            => prx'[p].pc = "fetch" /\ prx'[p].token = exchanged[i][1]]_vars

\* C13 amended: the same, where the later calls return T as long as no other
\* exchange has been stored since.
C13_ExchangeCachedUntilReplaced ==
  [][/\ Len(exchanged') > Len(exchanged) =>
          LET x == exchanged'[Len(exchanged')]
          IN /\ zohoAccessToken' = x[1]
             /\ tokenExpiry' = ExpiresAt(x)
             /\ \E p \in ProxyReqs :
                  prx[p].pc = "json" /\ prx'[p].pc = "fetch" /\ prx'[p].token = x[1]
     /\ \A p \in ProxyReqs :
          (CallStarts(p) /\ exchanged # << >>
             /\ now < ExpiresAt(exchanged[Len(exchanged)]))
            => /\ prx'[p].pc = "fetch"
               /\ prx'[p].token = exchanged[Len(exchanged)][1]]_vars

\* a token was issued, time has passed, and a later call has returned it
C13_Witness ==
  /\ Len(exchanged) = 1
  /\ now > exchanged[1][2] /\ now < ExpiresAt(exchanged[1])
  /\ ops >= 2
  /\ prx[1].pc = "fetch" /\ prx[1].token = exchanged[1][1]
  /\ prx[2].pc = "idle"

\* C14: a call that ends with neither a cached nor an issued token (missing
\* credentials, an answer with no access_token, a rejected await) returns null
\* to its caller, which goes on, and leaves token and expiry as they were.
C14_FailureKeepsCache ==
  [][\A p \in ProxyReqs :
       CallFails(p)
         => /\ prx'[p].pc = "fetch"
            /\ prx'[p].token = Null
            /\ zohoAccessToken' = zohoAccessToken
            /\ tokenExpiry' = tokenExpiry]_vars

\* a call has failed at a time when the cache held an expired token, which is
\* still cached
C14_Witness ==
  /\ zohoAccessToken # Null /\ now >= tokenExpiry
  /\ \E p \in ProxyReqs : prx[p].pc = "fetch" /\ prx[p].token = Null

\* C15: in every state the cached token and the cached expiry are those of one
\* and the same exchange, or the cache is as created.
C15_CacheFromOneExchange ==
  \/ zohoAccessToken = Null /\ tokenExpiry = 0
  \/ \E i \in DOMAIN exchanged :
       zohoAccessToken = exchanged[i][1] /\ tokenExpiry = ExpiresAt(exchanged[i])

\* two exchanges were in flight together and have answered different tokens
\* with different durations
C15_Witness ==
  /\ Len(exchanged) = 2
  /\ exchanged[1][2] = exchanged[2][2]
  /\ exchanged[1][1] # exchanged[2][1]
  /\ \A p \in ProxyReqs : prx[p].pc = "fetch" /\ prx[p].token # Null

\* C17: a request whose token call returned null sends the GET of the image
\* with no Authorization header, and a request is answered 502 'Image
\* unavailable' only from the GET of the image or the read of its body.
C17_NoTokenStillFetches ==
  [][\A p \in ProxyReqs :
       /\ CallFails(p) => prx'[p].pc = "fetch" /\ ~prx'[p].auth
       /\ (prx[p].pc # "done" /\ prx'[p].pc = "done" /\ prx'[p].res = 502)
            => prx[p].pc \in {"fetch", "buffer"}]_vars

\* an image was served to a request that had no token
C17_Witness ==
  \E p \in ProxyReqs :
    prx[p].pc = "done" /\ prx[p].res = 200 /\ prx[p].token = Null /\ ~prx[p].auth

-----------------------------------------------------------------------------
(* Properties of the sync runs and of the failures of the table store *)

TablesUnchanged ==
  aged_inventory' = aged_inventory /\ catalog_images' = catalog_images

\* syncCatalogImages is executing: it has not returned to its caller
SyncRunning(k) == syn[k].pc \in {"read", "upsert", "backfill"}

\* C11: a sync run whose read of products rejects, and a run with no
\* catalogPool, returns to its caller (the startup chain goes on to listen,
\* the request handler to its COUNT) and changes neither table.
C11_SyncUnavailableNoOp ==
  [][/\ \A k \in SyncRuns :
          (syn[k].pc = "read" /\ SyncFail(k))
            => /\ TablesUnchanged
               /\ syn'[k].pc = IF syn[k].by = "request" THEN "count" ELSE "idle"
               /\ boot' = IF syn[k].by = "startup" THEN "up" ELSE boot
     /\ (~catalogPool /\ (InitDB \/ \E k \in SyncRuns : SyncTimer(k)))
          => /\ TablesUnchanged
             /\ syn' = syn
             /\ boot' = "up"]_vars

\* with no catalogPool the startup run and a timer run have returned, and the
\* tables hold what the imports wrote
C11_Witness ==
  /\ ~catalogPool
  /\ boot = "up"
  /\ ops = MaxOps
  /\ aged_inventory # << >>
  /\ catalog_images # << >>
  /\ cat.pc = "idle" /\ flg.pc = "idle"
  /\ \A r \in ImportReqs : imp[r].pc = "idle"

\* C16: a run started by the timer never begins while another run of
\* syncCatalogImages has not returned.
C16_TimerNeverOverlaps ==
  [][\A k \in SyncRuns :
       (syn[k].pc = "idle" /\ syn'[k].pc = "read" /\ syn'[k].by = "timer")
         => \A j \in SyncRuns : ~SyncRunning(j)]_vars

-----------------------------------------------------------------------------
(* Properties of the merge policies *)

Min(S) == CHOOSE x \in S : \A y \in S : x <= y

\* the trimmed Commodity of the first row of the pair with a non-blank one
FirstCommodity(rows, style, color) ==
  LET with == { i \in RowsOf(rows, style, color) : Trim(rows[i].Commodity) # Blank }
  IN IF with = {} THEN Blank ELSE Trim(rows[Min(with)].Commodity)

\* C19: the commodity of every group is the trimmed Commodity of the first row
\* of the group with a non-blank one, empty if there is none.
C19_FirstCommodityWins ==
  rpc = "done" =>
    \A g \in DOMAIN out_groups :
      out_groups[g].commodity =
        FirstCommodity(in_rows, out_groups[g].style, out_groups[g].color)

\* the first row of the pair whose parsed age is the greatest of the pair
MaxAgeRow(rows, style, color) ==
  LET of == RowsOf(rows, style, color)
  IN Min({ i \in of : \A j \in of : AgeOf(rows[j]) <= AgeOf(rows[i]) })

\* C20: age_days, age_bracket and trsc_date of every group are those of one
\* row, the first of the group whose parsed age is the greatest of the group.
C20_AgeTrioFromOneRow ==
  rpc = "done" =>
    \A g \in DOMAIN out_groups :
      LET r == in_rows[MaxAgeRow(in_rows, out_groups[g].style, out_groups[g].color)]
      IN /\ out_groups[g].age_days = AgeOf(r)
         /\ out_groups[g].age_bracket = Trim(r.Age_Bracket)
         /\ out_groups[g].trsc_date = Trim(r.Trsc_Date)

-----------------------------------------------------------------------------
(* The sizes, the sums and the purchase order of a group *)

\* the members of a set of row numbers, in input order
RECURSIVE InOrder(_)
InOrder(S) == IF S = {} THEN << >> ELSE Append(InOrder(S \ {Max(S)}), Max(S))

\* the size tokens of the pair: the trimmed Size of its rows, in input order
TokensOf(rows, style, color) ==
  LET of == InOrder(RowsOf(rows, style, color))
  IN [k \in DOMAIN of |-> Trim(rows[of[k]].Size)]

\* the rank table, lowest rank first
RankOrder ==
  << <<"X", "S">>, <<"S">>, <<"M">>, <<"L">>, <<"X", "L">>, <<"1", "X">>,
     <<"2", "X">>, <<"3", "X">>, <<"4", "X">> >>

\* the tokens of the rank table that occur, in rank order, then the other
\* tokens at their first appearance, in input order
ExpectedSizes(tokens) ==
  LET occurs(t) == \E i \in DOMAIN tokens : tokens[i] = t
      ranked(t) == \E k \in DOMAIN RankOrder : RankOrder[k] = t
      first == { i \in DOMAIN tokens :
                   /\ ~ranked(tokens[i])
                   /\ \A j \in 1..(i - 1) : tokens[j] # tokens[i] }
      others == InOrder(first)
  IN SelectSeq(RankOrder, occurs) \o [k \in DOMAIN others |-> tokens[others[k]]]

\* C21: the resolved sizes of every group hold each distinct token once: the
\* tokens of the rank table in rank order, then the tokens outside the table
\* in the order of their first appearance; the INSERT writes them joined.
\* (Violated: a token that names a member of Object.prototype compares as
\* equal to every token, so a ranked token behind it stays behind it.)
C21_SizesRankedThenFirstSeen ==
  rpc = "done" =>
    \A g \in DOMAIN out_groups :
      LET tokens == TokensOf(in_rows, out_groups[g].style, out_groups[g].color)
      IN /\ sortSizes(tokens) = { ExpectedSizes(tokens) }
         /\ out_groups[g].sizes = Join(ExpectedSizes(tokens))

\* what each Remaining_Stock text of the batches stands for, in hundredths
StockMeaning ==
  (Blank :> 0) @@ (<<"x">> :> 0) @@ (<<"5">> :> 500) @@
  (<<"1", ",", "2", "0", "0">> :> 120000) @@ (<<"2", ".", "5">> :> 250)

RECURSIVE SumOver(_, _)
SumOver(S, f) ==
  IF S = {} THEN 0 ELSE LET i == Max(S) IN f[i] + SumOver(S \ {i}, f)

\* C22: total_remaining of every group is the sum of the Remaining_Stock of
\* its rows, a blank or unparsable field counting as 0 and thousands
\* separators being ignored; the rows with such a field do not change the sum.
C22_TotalRemainingIsSum ==
  rpc = "done" =>
    \A g \in DOMAIN out_groups :
      LET of == RowsOf(in_rows, out_groups[g].style, out_groups[g].color)
          meant == [i \in DOMAIN in_rows |-> StockMeaning[in_rows[i].Remaining_Stock]]
          counted == { i \in of : in_rows[i].Remaining_Stock \notin {Blank, <<"x">>} }
      IN /\ out_groups[g].total_remaining = SumOver(of, meant)
         /\ out_groups[g].total_remaining = SumOver(counted, meant)

C22_Witness ==
  /\ rpc = "done"
  /\ Len(in_rows) = 2
  /\ Len(out_groups) = 1
  /\ in_rows[1].Remaining_Stock = <<"1", ",", "2", "0", "0">>
  /\ in_rows[2].Remaining_Stock = <<"x">>
  /\ out_groups[1].total_remaining = 120000

\* the trimmed PO_No of the last row of the pair with a non-blank one
LastPoNo(rows, style, color) ==
  LET with == { i \in RowsOf(rows, style, color) : Trim(rows[i].PO_No) # Blank }
  IN IF with = {} THEN Blank ELSE Trim(rows[Max(with)].PO_No)

\* C23: po_no of every group is the trimmed PO_No of the last row of the group
\* with a non-blank one, empty if there is none; a later row with a blank
\* PO_No does not clear it.
C23_LastPoNoWins ==
  rpc = "done" =>
    \A g \in DOMAIN out_groups :
      out_groups[g].po_no =
        LastPoNo(in_rows, out_groups[g].style, out_groups[g].color)

C23_Witness ==
  /\ rpc = "done"
  /\ Len(in_rows) = 2
  /\ Len(out_groups) = 1
  /\ in_rows[1].PO_No = <<"P", " ">>
  /\ in_rows[2].PO_No = <<" ">>
  /\ out_groups[1].po_no = <<"P">>

-----------------------------------------------------------------------------
(* The catalog import *)

\* a catalog-format row with a non-blank style that does not begin with the
\* reserved prefix, and a non-blank image
Qualifies(r) ==
  LET style == Trim(r.StyleName)
  IN /\ style # Blank
     /\ ~(Len(style) >= 5 /\ SubSeq(style, 1, 5) = <<"G", "r", "a", "n", "d">>)
     /\ Trim(r.StyleImage) # Blank

\* insert if absent, else overwrite image_url
MergeRule(tbl, style, img) ==
  IF \E i \in DOMAIN tbl : tbl[i].style = style
  THEN [i \in DOMAIN tbl |->
          IF tbl[i].style = style THEN [tbl[i] EXCEPT !.image_url = img] ELSE tbl[i]]
  ELSE Append(tbl, [style |-> style, image_url |-> img])

\* C24: the catalog import upserts (trimmed style, trimmed image) for a row if
\* and only if the row qualifies: every row its loop passes over without an
\* upsert does not qualify and leaves catalog_images unchanged, every row it
\* stops at qualifies, and its upsert inserts if absent and else overwrites
\* image_url, as the upsert of the sync pull does for the same pair.
C24_CatalogUpsertIffQualifies ==
  [][ (cat' # cat /\ cat'.pc \in {"upsert", "backfill"}) =>
        LET from  == IF cat.pc = "upsert" THEN cat.next ELSE 0
            rows  == cat'.rows
        IN /\ \A i \in (from + 1)..(cat'.next - 1) : ~Qualifies(rows[i])
           /\ cat'.pc = "upsert" => cat'.next <= Len(rows) /\ Qualifies(rows[cat'.next])
           /\ cat'.pc = "backfill" => cat'.next = Len(rows) + 1
           /\ IF cat.pc = "upsert"
              THEN LET style == Trim(rows[from].StyleName)
                       img   == Trim(rows[from].StyleImage)
                   IN /\ catalog_images' = MergeRule(catalog_images, style, img)
                      /\ catalog_images' =
                           ProductUpsert(catalog_images, ProductRow(style, img))
              ELSE catalog_images' = catalog_images ]_vars

\* the import has upserted its second row over an entry of the sync pull, has
\* passed over the rows without a style or an image, and is at its last row
C24_Witness ==
  /\ cat.pc = "upsert"
  /\ cat.next = 5
  /\ ~Qualifies(cat.rows[1]) /\ ~Qualifies(cat.rows[3]) /\ ~Qualifies(cat.rows[4])
  /\ catalog_images = << [style |-> <<"A">>, image_url |-> <<"c">>] >>
  /\ \E k \in SyncRuns : syn[k].pc = "backfill"

-----------------------------------------------------------------------------
(* The flag and the low-value import *)

\* C25 as stated: when a low-value import completes, every persisted row has
\* flagged = false, whatever flag updates ran before it completed, those
\* between its DELETE and its INSERTs included.  (Violated: an UPDATE to true
\* that follows the INSERT of its row outlives the import.)
C25_ImportResetsEveryFlag ==
  \A r \in ImportReqs :
    ImportSucceeded(r) =>
      \A i \in DOMAIN aged_inventory : ~aged_inventory[i].flagged

\* C25, amended: when a low-value import completes, every persisted row has
\* flagged = false, whatever flag updates ran before its DELETE, unless an
\* UPDATE to true has matched a row since its DELETE.
C25_ImportResetsEarlierFlags ==
  \A r \in ImportReqs :
    (ImportSucceeded(r) /\ imp[r].flagSince # "set") =>
      \A i \in DOMAIN aged_inventory : ~aged_inventory[i].flagged

\* an import has completed that found a flagged row when it started and has
\* inserted that key again
C25_Witness ==
  \E r \in ImportReqs :
    /\ ImportSucceeded(r)
    /\ imp[r].flagSince # "set"
    /\ \E b \in imp[r].before : \E i \in DOMAIN aged_inventory :
         b[3] /\ b[1] = aged_inventory[i].style /\ b[2] = aged_inventory[i].color
    /\ aged_inventory # << >>

\* C26: a flag update to true that races a low-value import is lost without
\* notice: when its UPDATE runs between the import's DELETE and the INSERT of
\* its row it matches nothing and the request is still answered 200, and
\* once the import has completed every row of that key has flagged = false.
C26_RacingFlagIsLost ==
  \A r \in ImportReqs :
    (ImportSucceeded(r) /\ imp[r].flagSince = "missed") =>
      \A i \in DOMAIN aged_inventory : \A items \in FlagItems :
        \A k \in DOMAIN items :
          SameKey(aged_inventory[i], items[k]) => ~aged_inventory[i].flagged

\* the flag request and the import have both finished, the flag request was
\* answered 200 for flagged = true, and the row of its key has flagged = false
C26_Witness ==
  \E r \in ImportReqs :
    /\ ImportSucceeded(r)
    /\ imp[r].flagSince = "missed"
    /\ ~FlagActive
    /\ \E i \in DOMAIN aged_inventory :
         /\ aged_inventory[i].style = <<"A">>
         /\ aged_inventory[i].color = <<"R">>
         /\ ~aged_inventory[i].flagged

-----------------------------------------------------------------------------
(* The cache and the persisted images *)

\* no low-value import, catalog import or sync run is in progress
NoneInProgress ==
  /\ \A r \in ImportReqs : ~ImportActive(r)
  /\ ~CatActive
  /\ \A k \in SyncRuns : ~SyncActive(k)

\* C27: whenever no low-value import, catalog import or sync is in progress,
\* no persisted row with a blank image_url has a catalog_images entry for its
\* style.  (Violated: an import that has read catalog_images before an upsert
\* and a backfill of another handler inserts its rows after them.)
C27_NoBlankImageWithCacheEntry ==
  NoneInProgress =>
    \A i \in DOMAIN aged_inventory :
      aged_inventory[i].image_url = Blank
        => aged_inventory[i].style \notin StylesOf(catalog_images)

-----------------------------------------------------------------------------
(* The exchanges in flight *)

\* C28: a call of getZohoAccessToken that starts while the cached token is
\* absent or expired, with the refresh token and the client settings in the
\* environment, sends its own exchange in the same step, whatever exchanges
\* of other calls are in flight: nothing limits their number to one.
C28_EveryCallExchanges ==
  [][ \A p \in ProxyReqs :
        (CallStarts(p) /\ ~CacheHit(p) /\ env.refresh /\ env.id /\ env.secret)
          => prx'[p].pc = "exchange" ]_vars

\* two calls that both started with no token cached each have an exchange in
\* flight
C28_Witness ==
  /\ zohoAccessToken = Null
  /\ exchanged = << >>
  /\ Cardinality(ProxyReqs) >= 2
  /\ \A p \in ProxyReqs : prx[p].pc \in {"exchange", "json"}

-----------------------------------------------------------------------------
(* The startup chain *)

\* no request has been accepted and no timer run has begun
NothingAccepted ==
  /\ ops = 0
  /\ \A r \in ImportReqs : imp[r] = ImpIdle
  /\ flg = FlgIdle
  /\ cat = CatIdle
  /\ \A k \in SyncRuns : syn[k].by \notin {"timer", "request"}

\* C29: at process start no sync run begins before initDB has completed; while
\* the first sync run is in progress the timer is not armed and no request is
\* accepted; and when initDB fails the process has exited with no sync run
\* begun and no request accepted.
C29_StartupInOrder ==
  /\ boot = "init" =>
        NothingAccepted /\ \A k \in SyncRuns : syn[k] = SynIdle
  /\ boot = "sync" =>
        /\ NothingAccepted
        /\ SyncRunning(1) /\ syn[1].by = "startup"
        /\ \A k \in SyncRuns \ {1} : syn[k] = SynIdle
  /\ boot = "exited" =>
        /\ NothingAccepted
        /\ \A k \in SyncRuns : syn[k] = SynIdle
        /\ lastUpsert = NoUpsert
        /\ catalog_images = << >>
  /\ ~NothingAccepted => boot = "up"

\* the first sync run has upserted a row and is not over: nothing else runs
C29_Witness ==
  /\ boot = "sync"
  /\ syn[1].pc = "backfill"
  /\ catalog_images # << >>

-----------------------------------------------------------------------------
(* The backfill of a sync run *)

\* C30: a sync run whose SELECT on products has answered does not return
\* before its backfill: the step in which the SELECT answers leaves the run in
\* progress, also when it answers no row, and a run at an upsert goes on to
\* another upsert or to the backfill.  (Violated: with no row the run returns
\* at once, and a rejected upsert ends the run.)
C30_BackfillBeforeReturn ==
  [][ \A k \in SyncRuns :
        /\ \A rows \in ProductResults : SyncRead(k, rows) => SyncRunning(k)'
        /\ syn[k].pc = "upsert" => syn'[k].pc \in {"upsert", "backfill"} ]_vars

-----------------------------------------------------------------------------
(* A low-value import that fails *)

\* the import r has been answered 400 or 500
ImportFailed(r) == imp[r].pc = "done" /\ imp[r].res \in {400, 500}

\* C31: when a low-value import has failed (no csv, a parse error, or a
\* rejected SELECT, DELETE or INSERT) and neither another low-value import
\* nor a flag update ran between its start and its answer, the persisted
\* rows are, by key and flag, those persisted when it started.  (Violated: a
\* rejected INSERT follows the DELETE and the INSERTs before it.)
C31_FailedImportChangesNothing ==
  \A r \in ImportReqs :
    (ImportFailed(r) /\ ~imp[r].overlap /\ ~imp[r].flagRan) =>
      FlagsOf(aged_inventory) = imp[r].before

====
